---- MODULE Spec2Model ----
(***************************************************************************)
(* Verification model of fastpitch/data_function.py:                       *)
(*   - TTSCollate.__call__            (batch collation)                    *)
(*   - BetaBinomialInterpolator       (bucket rounding, memo bank, zoom)   *)
(*   - TTSDataset.get_prior/get_pitch (disk caches, sequential and races)  *)
(* Tensors are sequences (1-D) or sequences of rows (2-D).  Floating-point *)
(* values are integers counted in units of the double-precision spacing;   *)
(* single precision keeps only every F32Grain-th of them.                  *)
(***************************************************************************)
EXTENDS Integers, Sequences, FiniteSets, TLC

VARIABLES
    batch,          \* TTSCollate: the list of examples handed to __call__
    cstate,         \* TTSCollate: "idle" | "returned" | "raised"
    cout,           \* TTSCollate: <<the returned 13-tuple>> (a record), or << >>
    round_mel_len_to,   \* BetaBinomialInterpolator.round_mel_len_to
    round_text_len_to,  \* BetaBinomialInterpolator.round_text_len_to
    bank,           \* BetaBinomialInterpolator.bank: the cached keys, least recently used first
    computed,       \* bucket pair -> runs of beta_binomial_prior_distribution made for it
    icall,          \* the last __call__ of the interpolator: << >> or <<[w, h, key, hit, memo, state, ret]>>
    ncalls,         \* calls of the interpolator so far
    epoch, pos,     \* the caller of the interpolator: pass number and utterances read in this pass
    corpus_size,    \* utterances in the list the caller reads
    rnd_in,         \* arguments <<v1, v2, to>> of two round() calls, v1 <= v2
    rnd_out,        \* << >> or <<round(v1, to), round(v2, to)>>
    dataset_path,   \* TTSDataset.dataset_path: [given, parts]
    first_key,      \* the first key of each corpus entry (a dict)
    disk,           \* the files under the cache directories: path -> [cells, off]
    wpc,            \* per worker: where it is in get_prior / get_pitch
    wjob,           \* per worker: [op, index] of the call it is in
    wval,           \* per worker: the tensor it computed, loaded or returned
    nexact,         \* per corpus index: runs of beta_binomial_prior_distribution by get_prior
    njobs           \* calls started so far

collateVars == <<batch, cstate, cout>>
interpVars  == <<round_mel_len_to, round_text_len_to, bank, computed, icall, ncalls>>
samplerVars == <<epoch, pos, corpus_size>>
roundVars   == <<rnd_in, rnd_out>>
diskVars    == <<dataset_path, first_key, disk, wpc, wjob, wval, nexact, njobs>>
vars == <<collateVars, interpVars, samplerVars, roundVars, diskVars>>

\* What each part of the program leaves alone.
notCollate == <<interpVars, samplerVars, roundVars, diskVars>>
notRound   == <<collateVars, interpVars, samplerVars, diskVars>>
notDisk    == <<collateVars, interpVars, samplerVars, roundVars>>

\* Python's None: for an optional tensor or list (a present one is never empty
\* here), and for an optional integer (a present one is never negative).
None    == << >>
NoneInt == -1

\* ------------------------------------------------------------------ bounds
MaxBatch   == 3     \* examples in one batch
MaxTextLen == 3     \* tokens of one example
MaxMelLen  == 2     \* mel frames of one example (also downsampled frames)
NumMels    == 2     \* mel channels (n_mel_channels)
F32Grain   == 4     \* double-precision values per single-precision value

\* ------------------------------------------------------- tensor primitives
Max(S) == CHOOSE m \in S : \A x \in S : x <= m

\* Cast of one value to torch.float32: nearest representable, ties to even.
Float32(v) ==
    LET q == v \div F32Grain
        r == v % F32Grain
    IN  IF 2 * r < F32Grain THEN q * F32Grain
        ELSE IF 2 * r > F32Grain THEN (q + 1) * F32Grain
        ELSE IF q % 2 = 0 THEN q * F32Grain ELSE (q + 1) * F32Grain

\* dst.zero_(); dst[:len(src)] = src  for a row of width n
PadRow(row, n) == [j \in 1..n |-> IF j <= Len(row) THEN row[j] ELSE 0]

\* dst.zero_(); dst[:rows(src), :cols(src)] = src  for an (r x n) matrix
PadMat(m, r, n) ==
    [i \in 1..r |-> IF i <= Len(m) THEN PadRow(m[i], n) ELSE [j \in 1..n |-> 0]]

\* Assignment of a row / a matrix into a float32 tensor: each value is cast.
CastRow(row) == [j \in 1..Len(row) |-> Float32(row[j])]
CastMat(m)   == [i \in 1..Len(m) |-> CastRow(m[i])]

\* ------------------------------------------------------------ the examples
\* What TTSDataset.__getitem__ returns for the example with identity `tag`:
\* text length L, T mel frames, Tds downsampled frames (0: no downsampled mel).
TextOf(tag, L)   == [j \in 1..L |-> tag * 10 + j]
MelOf(tag, T)    == [c \in 1..NumMels |-> [t \in 1..T |-> (tag * 100 + c * 10 + t) * F32Grain]]
PitchOf(tag, T)  == << [t \in 1..T |-> tag * 100 + 50 + t] >>
EnergyOf(tag, T) == [t \in 1..T |-> (tag * 100 + 70 + t) * F32Grain]
PriorOf(tag, T, L) == [i \in 1..T |-> [j \in 1..L |-> tag * 100 + i * 10 + j]]
CwtOf(tag, L)    == [j \in 1..L |-> tag * 10 + 5 + j]
DsMelOf(tag, T)  == [c \in 1..NumMels |-> [t \in 1..T |-> (tag * 100 + 80 + c * 10 + t) * F32Grain]]

Example(tag, L, T, Tds, spk, cwt) ==
    [ text       |-> TextOf(tag, L),
      mel        |-> MelOf(tag, T),
      len_text   |-> L,
      pitch      |-> PitchOf(tag, T),
      energy     |-> EnergyOf(tag, T),
      speaker    |-> IF spk THEN tag ELSE NoneInt,
      attn_prior |-> PriorOf(tag, T, L),
      audiopath  |-> tag,
      cwt_acc    |-> IF cwt THEN CwtOf(tag, L) ELSE None,
      ds_mel     |-> IF Tds > 0 THEN DsMelOf(tag, Tds) ELSE None ]

\* Batches of one dataset configuration: the optional fields (speaker, cwt
\* labels, downsampled mel) are present in every example or in none.
BatchesUpTo(maxn) ==
    UNION { { [i \in 1..n |-> Example(i, Ls[i], Ts[i], IF ds THEN Tds[i] ELSE 0, spk, cwt)] :
                Ls \in [1..n -> 1..MaxTextLen], Ts \in [1..n -> 1..MaxMelLen],
                Tds \in IF ds THEN [1..n -> 1..MaxMelLen] ELSE {[i \in 1..n |-> 0]} } :
            n \in 1..maxn, ds \in BOOLEAN, spk \in BOOLEAN, cwt \in BOOLEAN }

\* ------------------------------------------------------ TTSCollate.__call__
Perms(n) == { p \in [1..n -> 1..n] : \A i, j \in 1..n : i # j => p[i] # p[j] }

\* torch.sort(lengths, descending=True): the index vectors it may return.  The
\* sort is not stable, so equal lengths may come out in either order.
SortedIds(b) ==
    { p \in Perms(Len(b)) :
        \A i, j \in 1..Len(b) : i < j => Len(b[p[i]].text) >= Len(b[p[j]].text) }

\* Lines 393-477: every local of __call__ once the body has run, for the index
\* vector ids.  output_lengths_ds is bound only inside the branch of line 463.
\* mel, attention prior and downsampled mel land in float32 tensors; pitch and
\* energy land in tensors of the pitch's own dtype and keep their values.
CollateLocals(b, ids) ==
    LET N               == Len(b)
        input_lengths   == [i \in 1..N |-> Len(b[ids[i]].text)]
        max_input_len   == input_lengths[1]
        max_target_len  == Max({ Len(b[i].mel[1]) : i \in 1..N })
        has_ds          == b[1].ds_mel # None
        max_target_len_ds == IF has_ds THEN Max({ Len(b[i].ds_mel[1]) : i \in 1..N }) ELSE 0
    IN  [ text_padded       |-> [i \in 1..N |-> PadRow(b[ids[i]].text, max_input_len)],
          input_lengths     |-> input_lengths,
          mel_padded        |-> [i \in 1..N |->
                                   PadMat(CastMat(b[ids[i]].mel), Len(b[1].mel), max_target_len)],
          output_lengths    |-> [i \in 1..N |-> Len(b[ids[i]].mel[1])],
          len_x             |-> [i \in 1..N |-> b[i].len_text],
          pitch_padded      |-> [i \in 1..N |->
                                   PadMat(b[ids[i]].pitch, Len(b[1].pitch), max_target_len)],
          energy_padded     |-> [i \in 1..N |-> PadRow(b[ids[i]].energy, max_target_len)],
          speaker           |-> IF b[1].speaker # NoneInt
                                THEN [i \in 1..N |-> b[ids[i]].speaker] ELSE None,
          attn_prior_padded |-> [i \in 1..N |->
                                   PadMat(CastMat(b[ids[i]].attn_prior),
                                          max_target_len, max_input_len)],
          audiopaths        |-> [i \in 1..N |-> b[ids[i]].audiopath],
          cwt_padded        |-> IF b[1].cwt_acc # None
                                THEN [i \in 1..N |-> PadRow(b[ids[i]].cwt_acc, max_input_len)]
                                ELSE None,
          ds_mel_padded     |-> IF has_ds
                                THEN [i \in 1..N |->
                                        PadMat(CastMat(b[ids[i]].ds_mel),
                                               Len(b[1].ds_mel), max_target_len_ds)]
                                ELSE None,
          output_lengths_ds |-> IF has_ds
                                THEN [i \in 1..N |-> Len(b[ids[i]].ds_mel[1])]
                                ELSE << >>,
          bound_output_lengths_ds |-> has_ds ]

\* TTSCollate.__call__(batch).  The return statement (lines 479-481) reads
\* output_lengths_ds; when line 463 took the else branch the name was never
\* bound and the read raises UnboundLocalError instead of returning.
Collate ==
    /\ cstate = "idle"
    /\ \E ids \in SortedIds(batch) :
         LET loc == CollateLocals(batch, ids)
         IN  IF ~loc.bound_output_lengths_ds
             THEN /\ cstate' = "raised"
                  /\ cout' = None
             ELSE /\ cstate' = "returned"
                  /\ cout' = <<loc>>
    /\ UNCHANGED <<batch, notCollate>>

\* ------------------------------------------------ BetaBinomialInterpolator
MaxRoundTo == 5     \* bucket sizes round_mel_len_to, round_text_len_to
MaxW       == 6     \* requested mel length
MaxH       == 3     \* requested text length
MaxCalls   == 1     \* interpolator calls in one behaviour
MaxVal     == 8     \* argument val of round()
MaxTo      == 5     \* argument to of round()
TextSpan   == 11    \* distinct text lengths of the utterances read
MaxExtra   == 2     \* corpus entries beyond the capacity of the bank
MaxEpochs  == 2     \* passes over the list of utterances

\* functools.lru_cache(f), applied directly to a function, keeps maxsize = 128.
LruMaxsize == 128

\* The default bucket sizes of BetaBinomialInterpolator.__init__ (line 54).
DefaultRoundMelLenTo  == 100
DefaultRoundTextLenTo == 20

\* np.round (and Python's round) of the quotient n / d, d > 0: the nearest
\* integer, a tie going to the even one.
RoundHalfEven(n, d) ==
    LET q == n \div d
        r == n % d
    IN  IF 2 * r < d THEN q
        ELSE IF 2 * r > d THEN q + 1
        ELSE IF q % 2 = 0 THEN q ELSE q + 1

\* round() without the floor of one bucket.
round_NoFloor(val, to) == RoundHalfEven(val + 1, to) * to

\* round() with the quotient truncated instead of rounded to nearest.
round_Truncating(val, to) == Max({1, (val + 1) \div to}) * to

\* BetaBinomialInterpolator.round (line 60)
round(val, to) == Max({1, RoundHalfEven(val + 1, to)}) * to

RECURSIVE Binom(_, _)
Binom(n, k) == IF k = 0 THEN 1 ELSE (Binom(n, k - 1) * (n - k + 1)) \div k

\* beta_binomial_prior_distribution (lines 71-81), scaling = 1.0.  Row i
\* (1..M) is betabinom(P, i, M + 1 - i).pmf over x = 0..P-1, which is
\*   C(x+i-1, x) * C(P-x+M-i, P-x) / C(P+M, P).
\* A matrix is kept exactly: its numerators over one common denominator.
beta_binomial_prior_distribution(phoneme_count, mel_count) ==
    LET P == phoneme_count
        M == mel_count
    IN  [ den |-> Binom(P + M, P),
          num |-> [i \in 1..M |-> [j \in 1..P |->
                     Binom(j - 1 + i - 1, j - 1) * Binom(P - (j - 1) + M - i, P - (j - 1))]] ]

Rows(m) == Len(m.num)
Cols(m) == IF Len(m.num) = 0 THEN 0 ELSE Len(m.num[1])

\* The .T left out.
Transpose_Missing(m) == m

\* tensor.T
Transpose(m) ==
    [ den |-> m.den,
      num |-> [j \in 1..Cols(m) |-> [i \in 1..Rows(m) |-> m.num[i][j]]] ]

\* scipy.ndimage.zoom(m, zoom=(zr_n / zr_d, zc_n / zc_d), order=1): the output
\* shape is round(input size * zoom) per axis; output index o reads the input
\* at o * (in - 1) / (out - 1) (at 0 when out = 1), linearly interpolated.
Zoom(m, zr_n, zr_d, zc_n, zc_d) ==
    LET inR  == Rows(m)
        inC  == Cols(m)
        outR == RoundHalfEven(inR * zr_n, zr_d)
        outC == RoundHalfEven(inC * zc_n, zc_d)
        DR   == IF outR > 1 THEN outR - 1 ELSE 1
        DC   == IF outC > 1 THEN outC - 1 ELSE 1
        NR   == IF outR > 1 THEN inR - 1 ELSE 1
        NC   == IF outC > 1 THEN inC - 1 ELSE 1
        At(i, j) == IF i < inR /\ j < inC THEN m.num[i + 1][j + 1] ELSE 0
        Val(r, c) ==
            LET i0 == (r * NR) \div DR
                fx == (r * NR) % DR
                j0 == (c * NC) \div DC
                fy == (c * NC) % DC
            IN  At(i0, j0) * (DR - fx) * (DC - fy) + At(i0 + 1, j0) * fx * (DC - fy)
                + At(i0, j0 + 1) * (DR - fx) * fy + At(i0 + 1, j0 + 1) * fx * fy
    IN  [ den |-> m.den * DR * DC,
          num |-> [r \in 1..outR |-> [c \in 1..outC |-> Val(r - 1, c - 1)]] ]

Range(seq) == { seq[i] : i \in 1..Len(seq) }
Without(seq, x) == SelectSeq(seq, LAMBDA y : y # x)

\* self.bank(bw, bh) where bank = functools.lru_cache(f) (line 57): a hit moves
\* the key to the most-recently-used end; a miss runs f, stores the result and,
\* when the cache already holds maxsize entries, drops the least recently used
\* one.  The cached result is f of the key, so the cache is kept as its keys.
BankLookup(cache, key) ==
    IF key \in Range(cache)
    THEN [ hit |-> TRUE, cache |-> Append(Without(cache, key), key) ]
    ELSE [ hit   |-> FALSE,
           cache |-> IF Len(cache) >= LruMaxsize
                     THEN Append(Tail(cache), key)
                     ELSE Append(cache, key) ]

Count(f, k) == IF k \in DOMAIN f THEN f[k] ELSE 0

\* BetaBinomialInterpolator.__call__(w, h) (lines 62-68).  The bank is called
\* positionally, so bw lands in phoneme_count and bh in mel_count.
InterpCall(w, h) ==
    LET bw    == round(w, round_mel_len_to)
        bh    == round(h, round_text_len_to)
        key   == <<bw, bh>>
        look  == BankLookup(bank, key)
        value == beta_binomial_prior_distribution(bw, bh)
        ret   == Zoom(Transpose(value), w, bw, h, bh)
        ok    == Rows(ret) = w /\ Cols(ret) = h
    IN  /\ bank' = look.cache
        /\ computed' = IF look.hit THEN computed
                       ELSE (key :> (Count(computed, key) + 1)) @@ computed
        /\ icall' = << [ w |-> w, h |-> h, key |-> key, hit |-> look.hit,
                        memo |-> value,
                        state |-> IF ok THEN "returned" ELSE "AssertionError",
                        ret |-> IF ok THEN ret ELSE [den |-> 1, num |-> << >>] ] >>
        /\ UNCHANGED <<round_mel_len_to, round_text_len_to>>

\* TTSDataset.get_prior with use_betabinomial_interpolator (lines 299-301)
GetPriorInterpolated(mel_len, text_len) == InterpCall(mel_len, text_len)

\* The utterances read: entry e has these mel and text lengths, all
\* pairs distinct.
MelLenOf(e)  == 1 + ((e - 1) \div TextSpan)
TextLenOf(e) == 1 + ((e - 1) % TextSpan)

\* Two calls of round() with the same bucket size.
RoundBoth ==
    /\ rnd_out = << >>
    /\ rnd_out' = << round(rnd_in[1], rnd_in[3]), round(rnd_in[2], rnd_in[3]) >>
    /\ UNCHANGED <<rnd_in, notRound>>

\* ------------------------------------- TTSDataset.get_prior and get_pitch
NumEntries == 2     \* corpus entries
MaxJobs    == 3     \* get_prior / get_pitch calls in one behaviour

\* pathlib paths: the directory components, the stem and the suffix of the name.
MkPath(dirs, stem, suffix) == [dirs |-> dirs, stem |-> stem, suffix |-> suffix]

\* The name of a one-component relative path such as Path('mels').
PathOfName(name) == MkPath(<< >>, name, "")

IsPrefix(p, q) == Len(p) <= Len(q) /\ SubSeq(q, 1, Len(p)) = p

\* Path.relative_to(root): << >> stands for the ValueError raised when the
\* path is not under root.
RelativeTo(p, root) ==
    IF IsPrefix(root, p.dirs)
    THEN << MkPath(SubSeq(p.dirs, Len(root) + 1, Len(p.dirs)), p.stem, p.suffix) >>
    ELSE << >>

WithSuffix(p, suffix) == MkPath(p.dirs, p.stem, suffix)
JoinPath(dir, p)      == MkPath(dir \o p.dirs, p.stem, p.suffix)

BetabinomialTmpDir == << "prior_tmp" >>      \* betabinomial_online_dir
PitchTmpDir        == << "pitch_tmp" >>      \* pitch_online_dir

\* The corpus: entry i is a dict whose 'mels' value is a path under the
\* dataset root; its text has i + 1 tokens and its mel i + 2 frames.
Stems == << "utt1", "utt2", "utt3", "utt4" >>
EntryMels(i)    == MkPath(dataset_path.parts \o << "mels" >>, Stems[i], ".pt")
EntryTextLen(i) == i + 1
EntryMelLen(i)  == i + 2

\* What get_pitch computes for entry i (estimate_pitch, one formant).
PitchTensor(i) ==
    [ kind |-> "pitch", den |-> 1,
      num  |-> << [t \in 1..EntryMelLen(i) |-> 100 * i + t] >> ]

\* What get_prior computes (line 312).
PriorTensor(text_len, mel_len) ==
    LET m == beta_binomial_prior_distribution(text_len, mel_len)
    IN  [ kind |-> "prior", den |-> m.den, num |-> m.num ]

NoTensor == [ kind |-> "none", den |-> 1, num |-> << >> ]

\* `audiopath, *_ = self.audiopaths_and_text[index]` (line 304): unpacking a
\* dict yields its keys, so audiopath is the first key, the same for every entry.
PriorAudiopath(index) == PathOfName(first_key)

\* `audiopath = self.audiopaths_and_text[index]['mels']` (line 321)
PitchAudiopath(index) == EntryMels(index)

\* Lines 305-307 and 338-340: << >> when relative_to raises ValueError.
CachedFpath(tmp_dir, audiopath) ==
    LET rel == IF dataset_path.given THEN RelativeTo(audiopath, dataset_path.parts)
               ELSE << audiopath >>
    IN  IF rel = << >> THEN << >>
        ELSE << JoinPath(tmp_dir, WithSuffix(rel[1], ".pt")) >>

JobPath(job) ==
    IF job.op = "prior" THEN CachedFpath(BetabinomialTmpDir, PriorAudiopath(job.index))
    ELSE CachedFpath(PitchTmpDir, PitchAudiopath(job.index))

IsFile(p) == p \in DOMAIN disk

\* torch.save writes a tensor as a stream of bytes, longer for a larger
\* tensor: a head followed by one chunk per row.
Chunks(t) == 1 + Rows(t)
Serialize(t) == [k \in 1..Chunks(t) |-> [t |-> t, k |-> k]]

\* The bytes of a gap left by a write that starts beyond the end of the file.
Hole == [t |-> NoTensor, k |-> 0]

\* write() of chunks at offset off of a descriptor: the bytes land on top of
\* what the file holds there, a gap before them is filled, the rest stays.
WriteAt(cells, off, chunks) ==
    [i \in 1..Max({Len(cells), off + Len(chunks)}) |->
        IF i > off /\ i <= off + Len(chunks) THEN chunks[i - off]
        ELSE IF i <= Len(cells) THEN cells[i]
        ELSE Hole]

\* The file holds exactly the stream of one tensor.
IsWhole(cells) == cells # << >> /\ cells = Serialize(cells[1].t)

\* The file holds the stream of one tensor followed by bytes of another.
HasWholePrefix(cells) ==
    /\ cells # << >>
    /\ Chunks(cells[1].t) < Len(cells)
    /\ SubSeq(cells, 1, Chunks(cells[1].t)) = Serialize(cells[1].t)

\* Whether torch.load can deserialize the file: it does when the file is the
\* stream of one tensor and does not when the stream is cut or interleaved;
\* with bytes trailing a whole stream it depends on the serialization format.
LoadOutcomes(cells) ==
    IF IsWhole(cells) THEN {TRUE}
    ELSE IF HasWholePrefix(cells) THEN BOOLEAN
    ELSE {FALSE}

NoJob == [op |-> "none", index |-> 0]

\* Entry of get_prior(index, mel_len, text_len) in disk-cached mode (lines
\* 303-307) or of get_pitch(index, mel_len) with pitch_online_dir (337-340).
Begin(w, op, index) ==
    /\ wpc[w] = "idle"
    /\ njobs < MaxJobs
    /\ njobs' = njobs + 1
    /\ wjob' = [wjob EXCEPT ![w] = [op |-> op, index |-> index]]
    /\ wval' = [wval EXCEPT ![w] = NoTensor]
    /\ wpc' = [wpc EXCEPT ![w] =
                 IF JobPath([op |-> op, index |-> index]) = << >>
                 THEN "ValueError" ELSE "is_file"]
    /\ UNCHANGED <<dataset_path, first_key, disk, nexact, notDisk>>

\* `if cached_fpath.is_file():` (lines 309, 341)
Check(w) ==
    /\ wpc[w] = "is_file"
    /\ wpc' = [wpc EXCEPT ![w] = IF IsFile(JobPath(wjob[w])[1]) THEN "load" ELSE "compute"]
    /\ UNCHANGED <<dataset_path, first_key, disk, wjob, wval, nexact, njobs, notDisk>>

\* `return torch.load(cached_fpath)` (lines 310, 342) on the bytes the file
\* holds at this moment.
Load(w) ==
    /\ wpc[w] = "load"
    /\ LET f == disk[JobPath(wjob[w])[1]]
       IN  \E ok \in LoadOutcomes(f.cells) :
             IF ok
             THEN /\ wpc' = [wpc EXCEPT ![w] = "returned"]
                  /\ wval' = [wval EXCEPT ![w] = f.cells[1].t]
             ELSE /\ wpc' = [wpc EXCEPT ![w] = "load_failed"]
                  /\ wval' = wval
    /\ UNCHANGED <<dataset_path, first_key, disk, wjob, nexact, njobs, notDisk>>

\* Line 312 (get_prior) or lines 345-350 followed by the second is_file test
\* of line 352 (get_pitch, which skips the save when the file has appeared).
Compute(w) ==
    /\ wpc[w] = "compute"
    /\ LET i == wjob[w].index
       IN  IF wjob[w].op = "prior"
           THEN /\ wval' = [wval EXCEPT ![w] = PriorTensor(EntryTextLen(i), EntryMelLen(i))]
                /\ nexact' = [nexact EXCEPT ![i] = @ + 1]
                /\ wpc' = [wpc EXCEPT ![w] = "save"]
           ELSE /\ wval' = [wval EXCEPT ![w] = PitchTensor(i)]
                /\ nexact' = nexact
                /\ wpc' = [wpc EXCEPT ![w] =
                             IF IsFile(JobPath(wjob[w])[1]) THEN "returned" ELSE "save"]
    /\ UNCHANGED <<dataset_path, first_key, disk, wjob, njobs, notDisk>>

\* torch.save(tensor, cached_fpath) opens the file for writing (lines 316,
\* 354): the file is created, or emptied when it exists; descriptors other
\* writers hold on it stay open and keep their offsets.
SaveBegin(w) ==
    /\ wpc[w] = "save"
    /\ LET p   == JobPath(wjob[w])[1]
           old == IF IsFile(p) THEN disk[p].off ELSE << >>
       IN  disk' = (p :> [cells |-> << >>, off |-> (w :> 0) @@ old]) @@ disk
    /\ wpc' = [wpc EXCEPT ![w] = "saving"]
    /\ UNCHANGED <<dataset_path, first_key, wjob, wval, nexact, njobs, notDisk>>

\* torch.save may flush the head of the stream before the rest.
SaveWrite(w) ==
    /\ wpc[w] = "saving"
    /\ LET p == JobPath(wjob[w])[1]
           f == disk[p]
       IN  /\ f.off[w] = 0
           /\ disk' = [disk EXCEPT ![p] =
                         [cells |-> WriteAt(f.cells, 0, SubSeq(Serialize(wval[w]), 1, 1)),
                          off   |-> [f.off EXCEPT ![w] = 1]]]
    /\ UNCHANGED <<dataset_path, first_key, wpc, wjob, wval, nexact, njobs, notDisk>>

\* torch.save writes what is left of the stream at the offset of its own
\* descriptor and closes the file; the call returns (lines 317-318, 355-356).
SaveEnd(w) ==
    /\ wpc[w] = "saving"
    /\ LET p    == JobPath(wjob[w])[1]
           f    == disk[p]
           s    == Serialize(wval[w])
           rest == SubSeq(s, f.off[w] + 1, Len(s))
       IN  disk' = [disk EXCEPT ![p] =
                      [cells |-> WriteAt(f.cells, f.off[w], rest),
                       off   |-> [x \in (DOMAIN f.off) \ {w} |-> f.off[x]]]]
    /\ wpc' = [wpc EXCEPT ![w] = "returned"]
    /\ UNCHANGED <<dataset_path, first_key, wjob, wval, nexact, njobs, notDisk>>

\* The caller takes the result (or the exception); the worker is free again.
Finish(w) ==
    /\ wpc[w] \in {"returned", "load_failed", "ValueError"}
    /\ njobs < MaxJobs
    /\ wpc' = [wpc EXCEPT ![w] = "idle"]
    /\ wjob' = [wjob EXCEPT ![w] = NoJob]
    /\ wval' = [wval EXCEPT ![w] = NoTensor]
    /\ UNCHANGED <<dataset_path, first_key, disk, nexact, njobs, notDisk>>

\* ---------------------------------------------------------- specifications
IdleCollate ==
    /\ batch = << >>
    /\ cstate = "idle"
    /\ cout = None
\* BetaBinomialInterpolator.__init__ (lines 54-57): the bucket sizes as given
\* and an empty bank.
NewInterpolator(mel_to, text_to) ==
    /\ round_mel_len_to = mel_to
    /\ round_text_len_to = text_to
    /\ bank = << >>
    /\ computed = << >>
    /\ icall = << >>
    /\ ncalls = 0

\* BetaBinomialInterpolator() as TTSDataset builds it (line 179), not called.
IdleInterp == NewInterpolator(DefaultRoundMelLenTo, DefaultRoundTextLenTo)
IdleSampler ==
    /\ epoch = 1
    /\ pos = 0
    /\ corpus_size = 0
IdleRound ==
    /\ rnd_in = <<0, 0, 1>>
    /\ rnd_out = << >>
IdleDisk ==
    /\ dataset_path = [given |-> FALSE, parts |-> << >>]
    /\ first_key = "mels"
    /\ disk = << >>
    /\ wpc = << >>
    /\ wjob = << >>
    /\ wval = << >>
    /\ nexact = << >>
    /\ njobs = 0

\* One collation of one batch.
InitCollate ==
    /\ batch \in BatchesUpTo(MaxBatch)
    /\ cstate = "idle"
    /\ cout = None
    /\ IdleInterp /\ IdleSampler /\ IdleRound /\ IdleDisk
NextCollate == Collate
SpecCollate == InitCollate /\ [][NextCollate]_vars

\* An interpolator of any bucket sizes answering any requests.
InitInterp ==
    /\ \E mel_to \in 1..MaxRoundTo, text_to \in 1..MaxRoundTo :
          NewInterpolator(mel_to, text_to)
    /\ IdleCollate /\ IdleSampler /\ IdleRound /\ IdleDisk
Request(w, h) ==
    /\ ncalls < MaxCalls
    /\ GetPriorInterpolated(w, h)
    /\ ncalls' = ncalls + 1
    /\ UNCHANGED <<collateVars, samplerVars, roundVars, diskVars>>
NextInterp == \E w \in 1..MaxW, h \in 1..MaxH : Request(w, h)
SpecInterp == InitInterp /\ [][NextInterp]_vars

\* One BetaBinomialInterpolator(round_mel_len_to=1, round_text_len_to=1),
\* built with bucket sizes of one frame and one symbol so that every pair of
\* lengths has a bucket pair of its own, asked for the priors of a list of
\* utterances in order, pass after pass.
InitBank ==
    /\ NewInterpolator(1, 1)
    /\ IdleCollate /\ IdleRound /\ IdleDisk
    /\ epoch = 1
    /\ pos = 0
    /\ corpus_size \in (LruMaxsize - 1)..(LruMaxsize + MaxExtra)
ReadNext ==
    /\ pos < corpus_size
    /\ GetPriorInterpolated(MelLenOf(pos + 1), TextLenOf(pos + 1))
    /\ pos' = pos + 1
    /\ UNCHANGED <<ncalls, epoch, corpus_size, collateVars, roundVars, diskVars>>
NextEpoch ==
    /\ pos = corpus_size
    /\ epoch < MaxEpochs
    /\ epoch' = epoch + 1
    /\ pos' = 0
    /\ UNCHANGED <<corpus_size, interpVars, collateVars, roundVars, diskVars>>
NextBank == ReadNext \/ NextEpoch
SpecBank == InitBank /\ [][NextBank]_vars

\* round() on two arguments v1 <= v2 and one bucket size.
InitRound ==
    /\ rnd_in \in { t \in (0..MaxVal) \X (0..MaxVal) \X (1..MaxTo) : t[1] <= t[2] }
    /\ rnd_out = << >>
    /\ IdleCollate /\ IdleInterp /\ IdleSampler /\ IdleDisk
NextRound == RoundBoth
SpecRound == InitRound /\ [][NextRound]_vars

\* The dataset roots a run may be given: none, "./", or a directory.
DatasetPaths ==
    { [given |-> FALSE, parts |-> << >>],
      [given |-> TRUE,  parts |-> << >>],
      [given |-> TRUE,  parts |-> << "data" >>] }

\* The column that comes first in the corpus entries.
FirstKeys == { "mels", "text" }

InitWorkers(ws) ==
    /\ dataset_path \in DatasetPaths
    /\ first_key \in FirstKeys
    /\ disk = << >>
    /\ wpc = [w \in ws |-> "idle"]
    /\ wjob = [w \in ws |-> NoJob]
    /\ wval = [w \in ws |-> NoTensor]
    /\ nexact = [i \in 1..NumEntries |-> 0]
    /\ njobs = 0
    /\ IdleCollate /\ IdleInterp /\ IdleSampler /\ IdleRound

\* One process calling get_prior (disk-cached mode) again and again.
InitDisk == InitWorkers({1})
NextDisk ==
    \E w \in {1} :
        \/ \E i \in 1..NumEntries : Begin(w, "prior", i)
        \/ Check(w)
        \/ Load(w)
        \/ Compute(w)
        \/ SaveBegin(w)
        \/ SaveWrite(w)
        \/ SaveEnd(w)
        \/ Finish(w)
SpecDisk == InitDisk /\ [][NextDisk]_vars

\* Two workers calling get_prior and get_pitch, their steps interleaved.
InitRace == InitWorkers({1, 2})
NextRace ==
    \E w \in {1, 2} :
        \/ \E op \in {"prior", "pitch"}, i \in 1..NumEntries : Begin(w, op, i)
        \/ Check(w)
        \/ Load(w)
        \/ Compute(w)
        \/ SaveBegin(w)
        \/ SaveWrite(w)
        \/ SaveEnd(w)
        \/ Finish(w)
SpecRace == InitRace /\ [][NextRace]_vars

\* ------------------------------------------------- claims on TTSCollate
Returned == cstate = "returned"
Out      == cout[1]
NoDsMel(b) == \A k \in 1..Len(b) : b[k].ds_mel = None

Slice(row, n)     == SubSeq(row, 1, n)
SliceMat(m, r, n) == [i \in 1..r |-> Slice(m[i], n)]
IsDescending(v)   == \A i, j \in 1..Len(v) : i < j => v[i] >= v[j]

\* The row of the batch that holds input example k (paths are unique).
RowOf(k) == CHOOSE i \in 1..Len(batch) : Out.audiopaths[i] = batch[k].audiopath

\* C1: a call on examples none of which carries a downsampled mel returns
\* normally, with ds_mel_padded and output_lengths_ds absent.
C1_ReturnsWithoutDsMel ==
    (cstate # "idle" /\ NoDsMel(batch)) =>
        (Returned /\ Out.ds_mel_padded = None /\ Out.output_lengths_ds = None)

\* Every per-example output except len_x follows the index vector p.
FollowsPerm(p) ==
    LET N == Len(batch)
        Lmax == Len(Out.text_padded[1])
        Tmax == Len(Out.mel_padded[1][1])
    IN  \A i \in 1..N :
          LET e == batch[p[i]]
          IN  /\ Out.text_padded[i] = PadRow(e.text, Lmax)
              /\ Out.input_lengths[i] = Len(e.text)
              /\ Out.mel_padded[i] = PadMat(CastMat(e.mel), Len(e.mel), Tmax)
              /\ Out.output_lengths[i] = Len(e.mel[1])
              /\ Out.pitch_padded[i] = PadMat(e.pitch, Len(e.pitch), Tmax)
              /\ Out.energy_padded[i] = PadRow(e.energy, Tmax)
              /\ (Out.speaker # None => Out.speaker[i] = e.speaker)
              /\ Out.attn_prior_padded[i] = PadMat(CastMat(e.attn_prior), Tmax, Lmax)
              /\ Out.audiopaths[i] = e.audiopath
              /\ (Out.cwt_padded # None => Out.cwt_padded[i] = PadRow(e.cwt_acc, Lmax))
              /\ (Out.ds_mel_padded # None =>
                    /\ Out.output_lengths_ds[i] = Len(e.ds_mel[1])
                    /\ Out.ds_mel_padded[i] =
                         PadMat(CastMat(e.ds_mel), Len(e.ds_mel),
                                Len(Out.ds_mel_padded[1][1])))

\* C2: in every returned batch all per-example outputs, len_x included, follow
\* one descending-text-length permutation of the input list.
C2_OnePermutation ==
    Returned =>
        \E p \in SortedIds(batch) :
            /\ FollowsPerm(p)
            /\ \A i \in 1..Len(batch) : Out.len_x[i] = batch[p[i]].len_text

\* What does hold of a returned batch: every output but len_x follows one
\* sorted permutation, and len_x is in the order of the input list.
ReturnedBatchOrder ==
    Returned =>
        /\ \E p \in SortedIds(batch) : FollowsPerm(p)
        /\ \A i \in 1..Len(batch) : Out.len_x[i] = batch[i].len_text

\* The text tensor and the length vector of a returned batch.
TextPaddedShape ==
    LET N    == Len(batch)
        Lmax == Max({ Len(batch[k].text) : k \in 1..N })
    IN  /\ Len(Out.text_padded) = N
        /\ \A i \in 1..N : Len(Out.text_padded[i]) = Lmax
        /\ Len(Out.input_lengths) = N
        /\ IsDescending(Out.input_lengths)
        /\ \E p \in Perms(N) :
             \A i \in 1..N :
                /\ Out.input_lengths[i] = Len(batch[p[i]].text)
                /\ Slice(Out.text_padded[i], Out.input_lengths[i]) = batch[p[i]].text
        /\ \A i \in 1..N : \A j \in 1..Lmax :
             j > Out.input_lengths[i] => Out.text_padded[i][j] = 0

\* C3: for any list of N >= 1 examples the call returns a text tensor of shape
\* (N, max text length), row i the i-th longest text left-aligned and zero
\* beyond its length, and input_lengths the text lengths sorted descending.
C3_TextPadded ==
    cstate # "idle" => (Returned /\ TextPaddedShape)

\* The part of C3 that holds: whenever the call returns, the text tensor and
\* the length vector are as stated.
TextPaddedWhenReturned == Returned => TextPaddedShape

\* Slicing example k's rows back to the recorded lengths gives its arrays.
RoundTripExact(k) ==
    LET i == RowOf(k)
        e == batch[k]
        P == Out.input_lengths[i]
        M == Out.output_lengths[i]
    IN  /\ Slice(Out.text_padded[i], P) = e.text
        /\ SliceMat(Out.mel_padded[i], Len(e.mel), M) = e.mel
        /\ SliceMat(Out.pitch_padded[i], Len(e.pitch), M) = e.pitch
        /\ Slice(Out.energy_padded[i], M) = e.energy
        /\ SliceMat(Out.attn_prior_padded[i], M, P) = e.attn_prior

\* C4: for every example of the input list, slicing its row of each padded
\* output to the recorded lengths reproduces the example's arrays exactly.
C4_RoundTrip ==
    cstate # "idle" => (Returned /\ \A k \in 1..Len(batch) : RoundTripExact(k))

\* What holds of a returned batch: text, mel, pitch and energy come back
\* exactly, the attention prior comes back rounded to single precision.
RoundTripWhenReturned ==
    Returned =>
        \A k \in 1..Len(batch) :
            LET i == RowOf(k)
                e == batch[k]
                P == Out.input_lengths[i]
                M == Out.output_lengths[i]
            IN  /\ Slice(Out.text_padded[i], P) = e.text
                /\ SliceMat(Out.mel_padded[i], Len(e.mel), M) = e.mel
                /\ SliceMat(Out.pitch_padded[i], Len(e.pitch), M) = e.pitch
                /\ Slice(Out.energy_padded[i], M) = e.energy
                /\ SliceMat(Out.attn_prior_padded[i], M, P) = CastMat(e.attn_prior)

\* The prior alone breaks the exact round trip even when the call returns.
PriorRoundTripWhenReturned ==
    Returned =>
        \A k \in 1..Len(batch) :
            SliceMat(Out.attn_prior_padded[RowOf(k)], Out.output_lengths[RowOf(k)],
                     Out.input_lengths[RowOf(k)]) = batch[k].attn_prior

\* --------------------------------------- claims on BetaBinomialInterpolator
Called == icall # << >>
Call   == icall[1]

\* C5: for every mel length M >= 1, text length P >= 1 and bucket sizes >= 1
\* the call passes both shape assertions and returns a matrix of shape (M, P).
C5_ShapeExact ==
    Called =>
        /\ Call.state = "returned"
        /\ Len(Call.ret.num) = Call.w
        /\ \A r \in 1..Len(Call.ret.num) : Len(Call.ret.num[r]) = Call.h

\* A returned call that had to stretch the mel axis of its bucket matrix (mel
\* length above its bucket) and to shrink the text axis, the two differing.
C5_Witness ==
    /\ Called
    /\ Call.state = "returned"
    /\ Call.w > Call.key[1]
    /\ Call.h < Call.key[2]
    /\ Call.key[1] # Call.key[2]

\* C6: after any sequence of requests the exact computation has
\* run at most once per distinct bucket pair, no entry being ever evicted.
C6_ComputedOncePerPair ==
    \A k \in DOMAIN computed : computed[k] <= 1

\* A bucket pair has left the bank and its exact matrix was computed again.
EvictedAndRecomputed ==
    \E k \in DOMAIN computed : computed[k] >= 2 /\ Len(bank) = LruMaxsize

\* C10: round(v, to) for v >= 0, to >= 1 is non-decreasing in v, a positive
\* multiple of to, and at least to for v = 0.
C10_RoundMonotonePositive ==
    rnd_out # << >> =>
        LET to == rnd_in[3]
        IN  /\ rnd_out[1] <= rnd_out[2]
            /\ \A i \in 1..2 : rnd_out[i] > 0 /\ rnd_out[i] % to = 0
            /\ (rnd_in[1] = 0 => rnd_out[1] >= to)

\* round(0, to) where only the floor of one bucket keeps the result positive,
\* next to a larger argument with a larger result.
C10_Witness ==
    /\ rnd_out # << >>
    /\ rnd_in[1] = 0
    /\ rnd_in[3] >= 3
    /\ rnd_out[1] = rnd_in[3]
    /\ rnd_out[2] > rnd_out[1]

\* ------------------------------------------ claims on the disk caches
Workers == DOMAIN wpc
OwnPrior(i) == PriorTensor(EntryTextLen(i), EntryMelLen(i))

\* After a get_prior call has returned, its cache file holds the returned
\* matrix, whole, and no entry's exact matrix was computed twice.  This much
\* holds of calls made one after another whenever the path can be derived.
CacheServes ==
    /\ \A w \in Workers :
         (wjob[w].op = "prior" /\ wpc[w] = "returned") =>
            LET p == JobPath(wjob[w])[1]
            IN  /\ IsFile(p)
                /\ IsWhole(disk[p].cells)
                /\ disk[p].cells[1].t = wval[w]
    /\ \A i \in DOMAIN nexact : nexact[i] <= 1

\* C7: in disk-cached mode a get_prior on a cache miss computes the exact
\* matrix and writes it to the derived cache path, and every later get_prior
\* for the same entry loads that file without computing again.
C7_MissWritesThenHits ==
    /\ \A w \in Workers : wjob[w].op = "prior" => wpc[w] # "ValueError"
    /\ CacheServes

\* C8: the matrix get_prior returns for an entry is the one computed for that
\* entry, of shape (mel length, text length) of that entry, because its cache
\* file is named after the entry's own audio path.
C8_OwnEntryMatrix ==
    \A w \in Workers :
        (wjob[w].op = "prior" /\ wpc[w] = "returned") =>
            LET i == wjob[w].index
            IN  /\ wval[w] = OwnPrior(i)
                /\ Rows(wval[w]) = EntryMelLen(i)
                /\ Cols(wval[w]) = EntryTextLen(i)

\* The cache file a returned get_prior call used carries its entry's name.
CacheFileOfOwnEntry ==
    \A w \in Workers :
        (wjob[w].op = "prior" /\ wpc[w] = "returned") =>
            JobPath(wjob[w])[1].stem = EntryMels(wjob[w].index).stem

\* C9: under every interleaving of two workers' existence checks, writes and
\* loads no worker loads a partially written cache file, every worker returns
\* a whole tensor, and the files left on disk are whole.
C9_NoPartialLoad ==
    /\ \A w \in Workers : wpc[w] # "load_failed"
    /\ \A w \in Workers : wpc[w] = "returned" => wval[w] # NoTensor
    /\ (\A w \in Workers : wpc[w] \in {"idle", "returned", "ValueError"}) =>
          \A p \in DOMAIN disk : IsWhole(disk[p].cells)

\* The race needs nothing but two get_pitch calls for one entry.
PitchLoadsWhole ==
    \A w \in Workers : wjob[w].op = "pitch" => wpc[w] # "load_failed"


\* ---------------------------------------------------------------------
\* The memoized bucket matrix against the exact prior (get_prior, both
\* branches), and the direction in which round moves a length.
\* ---------------------------------------------------------------------

\* Equality of two matrices of rationals kept as [den, num]: same shape and
\* equal entries after cross-multiplying by the other denominator.
SameMatrix(a, b) ==
    /\ Rows(a) = Rows(b)
    /\ Cols(a) = Cols(b)
    /\ \A i \in 1..Rows(a) : \A j \in 1..Cols(a) :
          a.num[i][j] * b.den = b.num[i][j] * a.den

\* What the non-interpolated branch of get_prior returns for an utterance of
\* mel_len frames and text_len symbols (line 312).
ExactPrior(mel_len, text_len) ==
    beta_binomial_prior_distribution(text_len, mel_len)

\* The call's lengths coincide with their buckets, so zoom has factor 1.
OnBucket == Called /\ Call.w = Call.key[1] /\ Call.h = Call.key[2]

\* C11: the matrix the interpolator memoizes for the bucket pair
\* (bucketMel, bucketText), laid out with one row per mel frame, is the exact
\* prior of phoneme_count = bucketText and mel_count = bucketMel; and a call
\* whose (w, h) already equal their buckets returns the same matrix as the
\* exact path does for (mel_len = w, text_len = h).
C11_MemoIsExactPrior ==
    Called =>
        /\ SameMatrix(Transpose(Call.memo), ExactPrior(Call.key[1], Call.key[2]))
        /\ (OnBucket /\ Call.state = "returned")
              => SameMatrix(Call.ret, ExactPrior(Call.w, Call.h))

\* The second half of C11 on its own: on-bucket calls agree with the exact path.
OnBucketAgreesWithExact ==
    (OnBucket /\ Call.state = "returned")
        => SameMatrix(Call.ret, ExactPrior(Call.w, Call.h))

\* An on-bucket call has returned.
OnBucketReturned == OnBucket /\ Call.state = "returned"

\* |a - b|
Dist(a, b) == IF a >= b THEN a - b ELSE b - a

\* The lengths of the current round request that are at least 1.
PositiveLengths == { i \in 1..2 : rnd_in[i] >= 1 }

\* C12 as stated: for every length v >= 1 and bucket size to >= 1,
\* round(v, to) is a multiple of to that is at least v (the length is rounded
\* up) and at least one bucket, for the mel length and the text length alike.
C12_RoundsUp ==
    rnd_out # << >> =>
        \A i \in PositiveLengths :
            /\ rnd_out[i] % rnd_in[3] = 0
            /\ rnd_out[i] >= rnd_in[3]
            /\ rnd_out[i] >= rnd_in[i]

\* C12, amended: for every length v >= 1 and bucket size to >= 1,
\* round(v, to) is a multiple of to, at least one bucket, and it is the
\* multiple nearest to v + 1 (within to/2 of it, an exact tie going to the
\* even multiple) unless v + 1 lies below half a bucket, where the result is
\* the single bucket to.  The result may therefore be smaller than v, but
\* never by more than to/2 - 1.
C12_RoundsToNearest ==
    rnd_out # << >> =>
        \A i \in PositiveLengths :
            LET v  == rnd_in[i]
                to == rnd_in[3]
                r  == rnd_out[i]
            IN  /\ r % to = 0
                /\ r >= to
                /\ \/ 2 * Dist(r, v + 1) <= to
                   \/ r = to /\ 2 * (v + 1) < to
                /\ (2 * Dist(r, v + 1) = to /\ r > to) => (r \div to) % 2 = 0
                /\ 2 * (v - r) <= to - 2

\* A length of at least 1 whose bucket is smaller than the length itself,
\* next to a length whose bucket is larger than it.
C12_Witness ==
    /\ rnd_out # << >>
    /\ rnd_in[1] >= 1
    /\ rnd_out[1] > rnd_in[1]
    /\ rnd_out[2] < rnd_in[2]
====
